---- MODULE Spec2Model ----
(***************************************************************************)
(* A model of openraft's portable encodings:                               *)
(*   - SerdeInstant  (openraft/src/metrics/serde_instant.rs): an Instant   *)
(*     translated to nanoseconds since the epoch and back, through the     *)
(*     serde (u64) and the rkyv (ArchivedU64) formats;                     *)
(*   - BoxedErrorSource (openraft/src/impls/boxed_error_source.rs);        *)
(*   - RPCTypes (openraft/src/network/rpc_type.rs).                        *)
(*                                                                         *)
(* Time is counted in ticks, TicksPerMs ticks to the millisecond, and the  *)
(* 64-bit word is scaled to NBytes cells of ByteBase values each, so that  *)
(* the casts `as u64` / `as i64` still wrap (Modulus = ByteBase^NBytes).   *)
(***************************************************************************)
EXTENDS Integers, Sequences, FiniteSets, TLC

VARIABLES
    \* SerdeInstant
    t,         \* true elapsed time, in ticks (ghost: no code reads it)
    wall,      \* what SystemTime::now() returns, ticks since the epoch
    mono,      \* what I::now() returns
    op,        \* the call in flight, between its two clock reads
    hist,      \* the completed calls, oldest first
    aborted,   \* the process panicked
    stepped,   \* a clock was stepped since the last call ended
    \* ArchivedSerdeInstant read from an untrusted buffer
    buf,       \* the buffer handed to rkyv::from_bytes
    bufpc,     \* "given" | "checked" | "rejected" | "done"
    bufout,    \* what from_bytes returned
    fieldRead, \* the archived word was interpreted (to_native)
    \* BoxedErrorSource
    btFlag,    \* the process-wide flag: anyerror::backtrace_str() is Some
    nflag,     \* how often the flag was changed
    err,       \* the boxed values built so far, each with the flag at its construction
    errWire,   \* the rkyv archive of the last value, <<>> when none
    errOut,    \* the values deserialized from errWire
    hb,        \* the answers of has_backtrace
    \* RPCTypes
    rpcWire,   \* encoded tags on their way
    rpcGot     \* what decoding each tag returned

codecVars == <<t, wall, mono, op, hist, aborted, stepped>>
bufVars == <<buf, bufpc, bufout, fieldRead>>
errVars == <<btFlag, nflag, err, errWire, errOut, hb>>
rpcVars == <<rpcWire, rpcGot>>
vars == <<codecVars, bufVars, errVars, rpcVars>>

----------------------------------------------------------------------------
(* Bounds and units *)

\* ticks per millisecond: the model's resolution of time
TicksPerMs == 4
\* values a cell ("byte") of the archived word can take
ByteBase == 2
\* calls made in one run
MaxCalls == 2
\* changes of the backtrace flag in one run
MaxFlagChanges == 1
\* boxed errors built in one run
MaxErrors == 2
\* RPC tags sent in one run
MaxTags == 2
\* the largest ordinal a corrupt tag carries
MaxOrdinal == 5
\* width of ArchivedU64, in cells
NBytes == 8

Ms(n) == n * TicksPerMs
TwoMs == Ms(2)
FiveMs == Ms(5)

RECURSIVE Pow(_, _)
Pow(b, n) == IF n = 0 THEN 1 ELSE b * Pow(b, n - 1)

Modulus == Pow(ByteBase, NBytes)
\* i64::MIN and i64::MAX of the scaled word
I64Max == ((Modulus + 1) \div 2) - 1
I64Min == I64Max - Modulus + 1

Abs(x) == IF x < 0 THEN -x ELSE x

\* `n as u64`
AsU64(n) == n % Modulus
\* `value as i64`
AsI64(u) == IF u > I64Max THEN u - Modulus ELSE u

----------------------------------------------------------------------------
(* Results *)

Ok(v) == [tag |-> "Ok", val |-> v, msg |-> ""]
Err(m) == [tag |-> "Err", val |-> 0, msg |-> m]
Panic(m) == [tag |-> "Panic", val |-> 0, msg |-> m]

----------------------------------------------------------------------------
(* The transform, a function of (value, sys_now, now) *)

\* the two branches exchanged
SystemTimeOfWrong(inner, sys_now, now) ==
    IF now >= inner THEN sys_now + (now - inner) ELSE sys_now - (inner - now)

\* the distance subtracted whichever side of now the Instant lies
SystemTimeOfAbs(inner, sys_now, now) ==
    IF now >= inner THEN sys_now - (now - inner) ELSE sys_now - (inner - now)

\* serialize, `let system_time = { ... }`: the Instant's wall time
SystemTimeOf(inner, sys_now, now) ==
    IF now >= inner THEN sys_now - (now - inner) ELSE sys_now + (inner - now)

\* DateTime::timestamp_nanos_opt: None outside the i64 range
timestamp_nanos_opt(datetime) ==
    IF datetime >= I64Min /\ datetime <= I64Max
    THEN [some |-> TRUE, val |-> datetime]
    ELSE [some |-> FALSE, val |-> 0]

\* serde: Serialize for SerdeInstant::serialize
SerdeSerialize(inner, sys_now, now) ==
    LET nano == timestamp_nanos_opt(SystemTimeOf(inner, sys_now, now))
    IN  IF ~nano.some THEN Err("time out of range") ELSE Ok(AsU64(nano.val))

\* rkyv: Serialize for SerdeInstant::serialize
RkyvSerialize(inner, sys_now, now) ==
    LET nano == timestamp_nanos_opt(SystemTimeOf(inner, sys_now, now))
    IN  IF ~nano.some THEN Panic("time out of range") ELSE Ok(AsU64(nano.val))

\* a decoder that reuses the monotonic reading as the wall reading
InstantOfStale(value, sys_now, now) ==
    LET system_time == AsI64(value)
    IN  IF system_time > now
        THEN now + (system_time - now)
        ELSE now - (now - system_time)

\* a decoder with its two branches exchanged
InstantOfSwapped(value, sys_now, now) ==
    LET system_time == AsI64(value)
    IN  IF system_time > sys_now
        THEN now - (system_time - sys_now)
        ELSE now + (sys_now - system_time)

\* InstantVisitor::visit_u64 and ArchivedSerdeInstant::deserialize, after the
\* word is read: `DateTime::from_timestamp_nanos(value as i64)` and the
\* translation back with the clock pair sampled in this call
InstantOf(value, sys_now, now) ==
    LET system_time == AsI64(value)
    IN  IF system_time > sys_now
        THEN now + (system_time - sys_now)
        ELSE now - (sys_now - system_time)

\* serde: InstantVisitor::visit_u64
SerdeDeserialize(value, sys_now, now) == Ok(InstantOf(value, sys_now, now))

\* rkyv: Deserialize for ArchivedSerdeInstant::deserialize
RkyvDeserialize(value, sys_now, now) == Ok(InstantOf(value, sys_now, now))

----------------------------------------------------------------------------
(* Byte layouts *)

RECURSIVE ToDecimal(_)
\* serde_json::to_string of a u64: its decimal digits
ToDecimal(n) == IF n < 10 THEN <<n>> ELSE ToDecimal(n \div 10) \o <<n % 10>>

RECURSIVE FromDecimal(_)
\* serde_json::from_str of a u64
FromDecimal(ds) ==
    IF Len(ds) = 0 THEN 0
    ELSE 10 * FromDecimal(SubSeq(ds, 1, Len(ds) - 1)) + ds[Len(ds)]

\* Archive::resolve: ArchivedU64::from_native(resolver), low cell first
from_native(u) == [k \in 1..NBytes |-> (u \div Pow(ByteBase, k - 1)) % ByteBase]

RECURSIVE to_native(_)
\* ArchivedU64::to_native
to_native(cells) ==
    IF Len(cells) = 0 THEN 0
    ELSE cells[1] + ByteBase * to_native(SubSeq(cells, 2, Len(cells)))

\* the encoded word on the wire of format fmt
WireOf(fmt, u) == IF fmt = "serde" THEN ToDecimal(u) ELSE from_native(u)

\* the word read back from the wire of format fmt
WordOf(fmt, wire) == IF fmt = "serde" THEN FromDecimal(wire) ELSE to_native(wire)

----------------------------------------------------------------------------
(* The clocks and the calls *)

\* the longest a call is held between its two clock reads
MaxJitter == TicksPerMs

Wall0 == Ms(10)
Mono0 == Ms(1)

\* Instants handed to serialize: around now, and far enough from now for the
\* translated wall time to reach and to leave the i64 range
Instants ==
    { Mono0 - Ms(3), Mono0, Mono0 + Ms(3),
      Mono0 + (I64Max - Wall0),
      Mono0 + (I64Max - Wall0) + MaxJitter + 1,
      Mono0 - (Wall0 - I64Min) - TwoMs - 1 }

\* timestamps handed to deserialize: every kind of 64-bit word
TsInputs ==
    { 0, Wall0, Wall0 + TicksPerMs - 1, Wall0 + TwoMs + 1,
      I64Max, I64Max + 1, Modulus - 1 }

Formats == {"serde", "rkyv"}

Idle == [pc |-> "idle", kind |-> "", fmt |-> "", arg |-> 0, wire |-> <<>>,
         sys_now |-> 0, tW |-> 0]

Last == hist[Len(hist)]

\* a call starts: `let sys_now = SystemTime::now();`
Begin(kind, fmt, arg, wire) ==
    /\ op.pc = "idle"
    /\ ~aborted
    /\ Len(hist) < MaxCalls
    /\ op' = [pc |-> "sampled", kind |-> kind, fmt |-> fmt, arg |-> arg,
              wire |-> wire, sys_now |-> wall, tW |-> t]
    /\ stepped' = FALSE
    /\ UNCHANGED <<t, wall, mono, hist, aborted, bufVars, errVars, rpcVars>>

\* the first call serializes an Instant
Encode ==
    \E i \in Instants, fmt \in Formats :
        /\ Len(hist) = 0
        /\ Begin("enc", fmt, i, <<>>)

\* the first call deserializes a timestamp some peer wrote
Decode ==
    \E ts \in TsInputs, fmt \in Formats :
        /\ Len(hist) = 0
        /\ Begin("dec", fmt, 0, WireOf(fmt, ts))

\* the same value is serialized again, or the same bytes deserialized again
Repeat ==
    /\ Len(hist) > 0
    /\ Begin(Last.kind, Last.fmt, IF Last.kind = "enc" THEN Last.arg ELSE 0,
             IF Last.kind = "dec" THEN Last.wire ELSE <<>>)

\* what the last call returned goes through the inverse call
Chain ==
    /\ Len(hist) > 0
    /\ Last.res.tag = "Ok"
    /\ IF Last.kind = "enc"
       THEN Begin("dec", Last.fmt, 0, Last.wire)
       ELSE Begin("enc", Last.fmt, Last.res.val, <<>>)

\* what the call in flight returns once `now` is read
ResultOf(o, now) ==
    IF o.kind = "enc"
    THEN IF o.fmt = "serde"
         THEN SerdeSerialize(o.arg, o.sys_now, now)
         ELSE RkyvSerialize(o.arg, o.sys_now, now)
    ELSE IF o.fmt = "serde"
         THEN SerdeDeserialize(WordOf(o.fmt, o.wire), o.sys_now, now)
         ELSE RkyvDeserialize(WordOf(o.fmt, o.wire), o.sys_now, now)

\* the call ends: `let now = I::now();`, the translation, the result
Finish ==
    /\ op.pc = "sampled"
    /\ LET res == ResultOf(op, mono)
           rec == [kind |-> op.kind, fmt |-> op.fmt,
                   arg |-> IF op.kind = "enc" THEN op.arg ELSE WordOf(op.fmt, op.wire),
                   wire |-> IF op.kind = "dec" THEN op.wire
                            ELSE IF res.tag = "Ok" THEN WireOf(op.fmt, res.val)
                            ELSE <<>>,
                   W |-> op.sys_now, M |-> mono, tW |-> op.tW, tM |-> t,
                   res |-> res]
       IN  /\ hist' = Append(hist, rec)
           /\ aborted' = (res.tag = "Panic")
    /\ op' = Idle
    /\ UNCHANGED <<t, wall, mono, stepped, bufVars, errVars, rpcVars>>

\* a tick passes between the two clock reads of a call: both clocks advance
Tick ==
    /\ op.pc = "sampled"
    /\ t - op.tW < MaxJitter
    /\ t' = t + 1
    /\ wall' = wall + 1
    /\ mono' = mono + 1
    /\ UNCHANGED <<op, hist, aborted, stepped, bufVars, errVars, rpcVars>>

\* two milliseconds pass between two calls: both clocks advance
Elapse ==
    /\ op.pc = "idle"
    /\ ~aborted
    /\ Len(hist) > 0
    /\ Len(hist) < MaxCalls
    /\ t = Last.tM
    /\ t' = t + TwoMs
    /\ wall' = wall + TwoMs
    /\ mono' = mono + TwoMs
    /\ UNCHANGED <<op, hist, aborted, stepped, bufVars, errVars, rpcVars>>

\* between two calls a clock may be stepped, once
CanStep ==
    /\ op.pc = "idle"
    /\ ~aborted
    /\ Len(hist) > 0
    /\ Len(hist) < MaxCalls
    /\ ~stepped

\* the wall clock is set (SystemTime is not monotonic)
WallStep ==
    \E d \in {-TwoMs, TwoMs} :
        /\ CanStep
        /\ stepped' = TRUE
        /\ wall' = wall + d
        /\ UNCHANGED <<t, mono, op, hist, aborted, bufVars, errVars, rpcVars>>

\* a mock Instant (I: Instant) is advanced
MonoStep ==
    /\ CanStep
    /\ stepped' = TRUE
    /\ mono' = mono + TwoMs
    /\ UNCHANGED <<t, wall, op, hist, aborted, bufVars, errVars, rpcVars>>

CodecInit ==
    /\ t = 0
    /\ wall = Wall0
    /\ mono = Mono0
    /\ op = Idle
    /\ hist = <<>>
    /\ aborted = FALSE
    /\ stepped = FALSE

BufOff ==
    /\ buf = <<>>
    /\ bufpc = "off"
    /\ bufout = Err("")
    /\ fieldRead = FALSE

ErrOff ==
    /\ btFlag = FALSE
    /\ nflag = 0
    /\ err = <<>>
    /\ errWire = <<>>
    /\ errOut = <<>>
    /\ hb = <<>>

RpcOff ==
    /\ rpcWire = <<>>
    /\ rpcGot = <<>>

Init == CodecInit /\ BufOff /\ ErrOff /\ RpcOff

Next ==
    \/ Encode
    \/ Decode
    \/ Repeat
    \/ Chain
    \/ Finish
    \/ Tick
    \/ Elapse
    \/ WallStep
    \/ MonoStep

Spec == Init /\ [][Next]_vars

----------------------------------------------------------------------------
(* ArchivedSerdeInstant read from an untrusted buffer *)

\* every buffer of at most NBytes cells
Buffers == UNION { [1..n -> 0..(ByteBase - 1)] : n \in 0..NBytes }

\* a validator that takes the word for an i64 and refuses what is negative
check_bytesSigned(value) == to_native(value) <= I64Max

\* CheckBytes for ArchivedSerdeInstant::check_bytes: it hands the pointer to
\* ArchivedU64's check, which accepts every pattern
check_bytes(value) == TRUE

\* rkyv::from_bytes, before it deserializes: the root must lie inside the
\* buffer (size_of::<ArchivedSerdeInstant>() = NBytes), then check_bytes
AccessRoot(bytes) ==
    IF Len(bytes) < NBytes THEN Err("TruncatedBufferError")
    ELSE IF ~check_bytes(SubSeq(bytes, Len(bytes) - NBytes + 1, Len(bytes)))
         THEN Err("MalformedBufferError")
         ELSE Ok(0)

\* from_bytes validates the buffer
BufAccess ==
    /\ bufpc = "given"
    /\ bufout' = AccessRoot(buf)
    /\ bufpc' = IF AccessRoot(buf).tag = "Ok" THEN "checked" ELSE "rejected"
    /\ UNCHANGED <<buf, fieldRead, codecVars, errVars, rpcVars>>

\* a tick passes while the buffer is being validated
BufTick ==
    /\ bufpc = "given"
    /\ t < MaxJitter
    /\ t' = t + 1
    /\ wall' = wall + 1
    /\ mono' = mono + 1
    /\ UNCHANGED <<op, hist, aborted, stepped, bufVars, errVars, rpcVars>>

\* from_bytes deserializes the validated root
BufDeserialize ==
    /\ bufpc = "checked"
    /\ fieldRead' = TRUE
    /\ bufout' = RkyvDeserialize(to_native(buf), wall, mono)
    /\ bufpc' = "done"
    /\ UNCHANGED <<buf, codecVars, errVars, rpcVars>>

BufInit ==
    /\ buf \in Buffers
    /\ bufpc = "given"
    /\ bufout = Err("")
    /\ fieldRead = FALSE

InitBuf == CodecInit /\ BufInit /\ ErrOff /\ RpcOff

NextBuf ==
    \/ BufAccess
    \/ BufTick
    \/ BufDeserialize

SpecBuf == InitBuf /\ [][NextBuf]_vars

----------------------------------------------------------------------------
(* BoxedErrorSource *)

\* Text is a sequence of pieces, so that Display can concatenate.
\* An Option is <<>> (None) or <<x>> (Some(x)).

\* std errors handed to from_error: a type name, a Display text, a source()
DiskFull == [name |-> "io::Error", text |-> <<"disk full">>, source |-> <<>>]
WriteFailed == [name |-> "WriteError", text |-> <<"write failed">>, source |-> <<DiskFull>>]
FlushFailed == [name |-> "FlushError", text |-> <<"flush failed">>, source |-> <<WriteFailed>>]
Errors == {DiskFull, WriteFailed, FlushFailed}

Messages == {<<"disk full">>, <<"timeout", ": ", "5s">>, <<>>}

RECURSIVE from_dyn(_, _)
\* AnyError::from_dyn: the message and, recursively, the chain of sources
from_dyn(e, typ) ==
    [typ |-> typ, msg |-> e.text,
     source |-> IF e.source = <<>> THEN <<>> ELSE <<from_dyn(e.source[1], <<>>)>>]

\* AnyError::new(error), as from_error calls it: the type name is kept
AnyErrorNew(e) == from_dyn(e, <<e.name>>)

\* AnyError::error(msg), as from_string and deserialize_with call it
AnyErrorError(msg) == [typ |-> <<>>, msg |-> msg, source |-> <<>>]

RECURSIVE Display(_)
\* Display for BoxedErrorSource: self.inner.fmt(f), AnyError's
\* "typ: msg; source: ..."
Display(a) ==
    (IF a.typ = <<>> THEN <<>> ELSE a.typ \o <<": ">>)
    \o a.msg
    \o (IF a.source = <<>> THEN <<>> ELSE <<"; source: ">> \o Display(a.source[1]))

\* Error for BoxedErrorSource::source
Source(a) == a.source

\* ErrorSource for BoxedErrorSource::from_error
from_error(e) == AnyErrorNew(e)

\* ErrorSource for BoxedErrorSource::from_string
from_string(msg) == AnyErrorError(msg)

\* the archive of a String: its length, then its pieces
ArchiveString(str) == <<Len(str)>> \o str

\* ArchivedString deserialized
DeserializeString(w) == SubSeq(w, 2, 1 + w[1])

\* an archive of the message alone
serialize_withMsgOnly(field) == ArchiveString(field.msg)

\* SerializeWith / ArchiveWith for AnyErrorAsString: field.to_string()
serialize_with(field) == ArchiveString(Display(field))

\* DeserializeWith for AnyErrorAsString: AnyError::error(message)
deserialize_with(w) == AnyErrorError(DeserializeString(w))

\* anyerror::backtrace_str().is_some(), read from the process
backtrace_str_is_some(flag) == flag

\* ErrorSource for BoxedErrorSource::has_backtrace: self is not consulted
has_backtrace(self, flag) == backtrace_str_is_some(flag)

\* the process-wide flag changes
SetBacktraceFlag ==
    /\ nflag < MaxFlagChanges
    /\ nflag' = nflag + 1
    /\ btFlag' = ~btFlag
    /\ UNCHANGED <<err, errWire, errOut, hb, codecVars, bufVars, rpcVars>>

\* a value just built, with the flag as it is now (ghost)
Built(inner) == [inner |-> inner, built |-> btFlag]

FromError ==
    \E e \in Errors :
        /\ Len(err) < MaxErrors
        /\ err' = Append(err, Built(from_error(e)))
        /\ errWire' = <<>>
        /\ UNCHANGED <<btFlag, nflag, errOut, hb, codecVars, bufVars, rpcVars>>

FromString ==
    \E m \in Messages :
        /\ Len(err) < MaxErrors
        /\ err' = Append(err, Built(from_string(m)))
        /\ errWire' = <<>>
        /\ UNCHANGED <<btFlag, nflag, errOut, hb, codecVars, bufVars, rpcVars>>

\* rkyv::to_bytes of the last value built
ArchiveError ==
    /\ Len(err) > 0
    /\ errWire = <<>>
    /\ Len(errOut) < Len(err)
    /\ errWire' = <<serialize_with(err[Len(err)].inner)>>
    /\ UNCHANGED <<btFlag, nflag, err, errOut, hb, codecVars, bufVars, rpcVars>>

\* rkyv::from_bytes of that archive
UnarchiveError ==
    /\ errWire # <<>>
    /\ Len(errOut) < Len(err)
    /\ errOut' = Append(errOut, [of |-> err[Len(err)].inner,
                                 inner |-> deserialize_with(errWire[1])])
    /\ errWire' = <<>>
    /\ UNCHANGED <<btFlag, nflag, err, hb, codecVars, bufVars, rpcVars>>

\* has_backtrace is asked of a value built earlier
HasBacktrace ==
    \E k \in 1..Len(err) :
        /\ Len(hb) < MaxErrors
        /\ hb' = Append(hb, [built |-> err[k].built, now |-> btFlag,
                             answer |-> has_backtrace(err[k].inner, btFlag)])
        /\ UNCHANGED <<btFlag, nflag, err, errWire, errOut, codecVars, bufVars, rpcVars>>

InitError ==
    /\ CodecInit /\ BufOff /\ RpcOff
    /\ btFlag \in BOOLEAN
    /\ nflag = 0
    /\ err = <<>>
    /\ errWire = <<>>
    /\ errOut = <<>>
    /\ hb = <<>>

NextError ==
    \/ SetBacktraceFlag
    \/ FromError
    \/ FromString
    \/ ArchiveError
    \/ UnarchiveError
    \/ HasBacktrace

SpecError == InitError /\ [][NextError]_vars

----------------------------------------------------------------------------
(* RPCTypes *)

\* the enum's members, in the order they are declared
RPCTypes == <<"Vote", "AppendEntries", "InstallSnapshot", "TransferLeader">>

Members == { RPCTypes[k] : k \in 1..Len(RPCTypes) }

\* ordinals counted from one
OrdinalFromOne(m) == CHOOSE k \in 1..Len(RPCTypes) : RPCTypes[k] = m

\* the discriminant the derives give a member: its position, from zero
Ordinal(m) == (CHOOSE k \in 1..Len(RPCTypes) : RPCTypes[k] = m) - 1

\* "rkyv": the archived enum, one byte holding the ordinal;
\* "serde_index": a serde format that writes the variant index;
\* "serde_name": a serde format that writes the variant name (serde_json)
RpcFormats == {"rkyv", "serde_index", "serde_name"}

Frame(fmt, ord, name, sent) == [fmt |-> fmt, ord |-> ord, name |-> name, sent |-> sent]

\* derive(rkyv::Serialize) and derive(serde::Serialize)
RpcSerialize(m, fmt) ==
    IF fmt = "serde_name" THEN Frame(fmt, 0, m, m) ELSE Frame(fmt, Ordinal(m), "", m)

RpcOk(m) == [tag |-> "Ok", member |-> m, msg |-> ""]
RpcErr(msg) == [tag |-> "Err", member |-> "", msg |-> msg]

\* derive(rkyv::Deserialize) behind the derived CheckBytes, and
\* derive(serde::Deserialize): a discriminant or name that is no member's is
\* refused
RpcDeserialize(f) ==
    IF f.fmt = "serde_name"
    THEN IF f.name \in Members THEN RpcOk(f.name) ELSE RpcErr("unknown variant")
    ELSE IF f.ord >= 0 /\ f.ord < Len(RPCTypes)
         THEN RpcOk(RPCTypes[f.ord + 1])
         ELSE RpcErr("MalformedBufferError")

RpcRoom == Len(rpcWire) + Len(rpcGot) < MaxTags

\* a tag is encoded and sent
RpcEncode ==
    \E m \in Members, fmt \in RpcFormats :
        /\ RpcRoom
        /\ rpcWire' = Append(rpcWire, RpcSerialize(m, fmt))
        /\ UNCHANGED <<rpcGot, codecVars, bufVars, errVars>>

\* bytes that no encoder of this program wrote arrive
RpcCorrupt ==
    \/ \E o \in 0..MaxOrdinal, fmt \in {"rkyv", "serde_index"} :
        /\ RpcRoom
        /\ rpcWire' = Append(rpcWire, Frame(fmt, o, "", ""))
        /\ UNCHANGED <<rpcGot, codecVars, bufVars, errVars>>
    \/ /\ RpcRoom
       /\ rpcWire' = Append(rpcWire, Frame("serde_name", 0, "Heartbeat", ""))
       /\ UNCHANGED <<rpcGot, codecVars, bufVars, errVars>>

\* the oldest tag on the wire is decoded
RpcDecode ==
    /\ rpcWire # <<>>
    /\ rpcGot' = Append(rpcGot, [frame |-> Head(rpcWire),
                                 res |-> RpcDeserialize(Head(rpcWire))])
    /\ rpcWire' = Tail(rpcWire)
    /\ UNCHANGED <<codecVars, bufVars, errVars>>

InitRpc == CodecInit /\ BufOff /\ ErrOff /\ RpcOff

NextRpc ==
    \/ RpcEncode
    \/ RpcCorrupt
    \/ RpcDecode

SpecRpc == InitRpc /\ [][NextRpc]_vars

----------------------------------------------------------------------------
(* What the claims about SerdeInstant speak of *)

\* the indices k of two consecutive calls hist[k], hist[k+1]
Pairs == 1..(Len(hist) - 1)

\* the time a call spent between its two clock reads
Jitter(r) == r.tM - r.tW
SubMs(r) == Jitter(r) < TicksPerMs

\* how far each clock was from true time when the call read it
WallOff(r) == r.W - r.tW
MonoOff(r) == r.M - r.tM

\* the two clocks advanced at the same rate from a's reads to b's reads
SameRate(a, b) == WallOff(a) = WallOff(b) /\ MonoOff(a) = MonoOff(b)

\* true time between the end of a and the start of b
Gap(a, b) == b.tW - a.tM

OutOfRange(r) ==
    LET st == SystemTimeOf(r.arg, r.W, r.M) IN st < I64Min \/ st > I64Max

\* b deserializes what a serialized
EncThenDec(a, b) ==
    /\ a.kind = "enc" /\ a.res.tag = "Ok"
    /\ b.kind = "dec" /\ b.wire = a.wire

\* b serializes the Instant a deserialized
DecThenEnc(a, b) ==
    /\ a.kind = "dec" /\ b.kind = "enc" /\ b.arg = a.res.val

\* a and b serialize the same Instant
EncTwice(a, b) ==
    /\ a.kind = "enc" /\ b.kind = "enc" /\ b.arg = a.arg
    /\ a.res.tag = "Ok" /\ b.res.tag = "Ok"

\* a and b deserialize the same bytes
DecTwice(a, b) == a.kind = "dec" /\ b.kind = "dec" /\ b.wire = a.wire

\* the decimal text of a timestamp without its last 6 digits: its whole
\* milliseconds (10^6 ns are TicksPerMs ticks)
MsText(u) == ToDecimal(u \div TicksPerMs)

\* the signed nanoseconds b's timestamp lies after a's
TsDelta(a, b) == AsI64(b.res.val) - AsI64(a.res.val)

----------------------------------------------------------------------------
(* C1 *)

\* C1: in both formats, an Instant that is serialized and then deserialized
\* comes back less than 5 ms away, when the two clocks advanced at the same
\* rate between the two calls and each call spent less than 1 ms between its
\* two clock reads.
C1_RoundTripWithin5ms ==
    \A k \in Pairs :
        LET a == hist[k]
            b == hist[k + 1]
        IN  (EncThenDec(a, b) /\ SameRate(a, b) /\ SubMs(a) /\ SubMs(b))
                => /\ b.res.tag = "Ok"
                   /\ Abs(b.res.val - a.arg) < FiveMs

C1_Witness ==
    \E k \in Pairs :
        LET a == hist[k]
            b == hist[k + 1]
        IN  /\ EncThenDec(a, b) /\ SameRate(a, b) /\ SubMs(a) /\ SubMs(b)
            /\ a.fmt = "rkyv"
            /\ Gap(a, b) = TwoMs
            /\ b.res.val # a.arg

----------------------------------------------------------------------------
(* C2 *)

\* C2: when the translated wall time of the Instant is outside the i64 range
\* of nanoseconds, serialize returns the error "time out of range" to its
\* caller in both formats, and the process does not panic.
C2_OutOfRangeIsReturned ==
    \A k \in 1..Len(hist) :
        (hist[k].kind = "enc" /\ OutOfRange(hist[k]))
            => /\ hist[k].res = Err("time out of range")
               /\ ~aborted

----------------------------------------------------------------------------
(* C6 *)

\* both clocks advanced by exactly 2 ms between the two calls
PairAdvanced(a, b) == SameRate(a, b) /\ Gap(a, b) = TwoMs

\* the monotonic clock alone was advanced by exactly 2 ms (a mock Instant)
MonoAdvanced(a, b) ==
    /\ WallOff(b) = WallOff(a) /\ MonoOff(b) - MonoOff(a) = TwoMs /\ Gap(a, b) = 0

\* the wall clock alone was advanced by exactly 2 ms
WallAdvanced(a, b) ==
    /\ MonoOff(b) = MonoOff(a) /\ WallOff(b) - WallOff(a) = TwoMs /\ Gap(a, b) = 0

\* C6 as stated: the clock advanced by exactly 2 ms between two encodes of
\* the same Instant, the two timestamps differ by 1.5 ms to 3 ms.
C6_Original ==
    \A k \in Pairs :
        LET a == hist[k]
            b == hist[k + 1]
            d == Abs(TsDelta(a, b))
        IN  (/\ EncTwice(a, b) /\ SubMs(a) /\ SubMs(b)
             /\ PairAdvanced(a, b) \/ MonoAdvanced(a, b) \/ WallAdvanced(a, b))
                => 2 * d >= 3 * TicksPerMs /\ d <= Ms(3)

\* C6, amended: when both clocks advance by 2 ms between two encodes of the
\* same Instant the advance cancels and the timestamps differ by less than
\* 1 ms, by the difference of the two calls' jitters; when one clock alone is
\* advanced by 2 ms they differ by more than 1 ms and less than 3 ms.
C6_AdvanceCancels ==
    \A k \in Pairs :
        LET a == hist[k]
            b == hist[k + 1]
            d == TsDelta(a, b)
        IN  (EncTwice(a, b) /\ SubMs(a) /\ SubMs(b))
                => /\ PairAdvanced(a, b) => d = Jitter(a) - Jitter(b) /\ Abs(d) < Ms(1)
                   /\ MonoAdvanced(a, b) => -d > Ms(1) /\ -d < Ms(3)
                   /\ WallAdvanced(a, b) => d > Ms(1) /\ d < Ms(3)

C6_Witness ==
    \E k \in Pairs :
        LET a == hist[k]
            b == hist[k + 1]
        IN  /\ EncTwice(a, b) /\ SubMs(a) /\ SubMs(b)
            /\ PairAdvanced(a, b)
            /\ TsDelta(a, b) = 0

----------------------------------------------------------------------------
(* C7 *)

\* C7 as stated: a timestamp that is deserialized and at once serialized
\* again keeps its decimal text up to the last 6 digits.
C7_Original ==
    \A k \in Pairs :
        LET a == hist[k]
            b == hist[k + 1]
        IN  (DecThenEnc(a, b) /\ SameRate(a, b) /\ SubMs(a) /\ SubMs(b))
                => /\ b.res.tag = "Ok"
                   /\ MsText(b.res.val) = MsText(a.arg)

\* C7, amended: a timestamp that is deserialized and at once serialized
\* again, when that succeeds, comes back less than 1 ms away (as signed
\* nanoseconds), by the difference of the two calls' jitters; it is the same
\* timestamp when the two jitters are equal.
C7_ReencodeWithin1ms ==
    \A k \in Pairs :
        LET a == hist[k]
            b == hist[k + 1]
        IN  (/\ DecThenEnc(a, b) /\ SameRate(a, b) /\ SubMs(a) /\ SubMs(b)
             /\ b.res.tag = "Ok")
                => /\ AsI64(b.res.val) - AsI64(a.arg) = Jitter(a) - Jitter(b)
                   /\ Abs(AsI64(b.res.val) - AsI64(a.arg)) < Ms(1)
                   /\ Jitter(a) = Jitter(b) => b.wire = a.wire

C7_Witness ==
    \E k \in Pairs :
        LET a == hist[k]
            b == hist[k + 1]
        IN  /\ DecThenEnc(a, b) /\ SameRate(a, b) /\ SubMs(a) /\ SubMs(b)
            /\ b.res.tag = "Ok"
            /\ MsText(b.res.val) # MsText(a.arg)

----------------------------------------------------------------------------
(* C9 *)

\* the result of a deserialize call, from the clock pair it sampled itself
Anchored(r) == r.res = Ok(r.M + (AsI64(r.arg) - r.W))

\* C9 as stated: the same bytes deserialized at two moments give two Instants
\* that differ by at most the wall-clock time elapsed between the two calls
\* plus a jitter under 1 ms, each anchored to its own clock samples.
C9_Original ==
    \A k \in Pairs :
        LET a == hist[k]
            b == hist[k + 1]
        IN  (DecTwice(a, b) /\ SubMs(a) /\ SubMs(b))
                => /\ Abs(b.res.val - a.res.val) < (b.W - a.W) + Ms(1)
                   /\ Anchored(a) /\ Anchored(b)

\* C9, amended: the same bytes deserialized at two moments give two Instants
\* whose difference is the monotonic time minus the wall time elapsed between
\* the two calls' reads; each is anchored to its own clock samples.  When the
\* clocks advanced at the same rate that difference is the difference of the
\* two jitters, under 1 ms, and within the elapsed wall time plus 1 ms.
C9_DriftIsClockDisagreement ==
    \A k \in Pairs :
        LET a == hist[k]
            b == hist[k + 1]
            d == b.res.val - a.res.val
        IN  DecTwice(a, b)
                => /\ Anchored(a) /\ Anchored(b)
                   /\ d = (b.M - a.M) - (b.W - a.W)
                   /\ (SameRate(a, b) /\ SubMs(a) /\ SubMs(b))
                        => /\ d = Jitter(b) - Jitter(a)
                           /\ Abs(d) < (b.W - a.W) + Ms(1)

C9_Witness ==
    \E k \in Pairs :
        LET a == hist[k]
            b == hist[k + 1]
        IN  /\ DecTwice(a, b) /\ SameRate(a, b) /\ SubMs(a) /\ SubMs(b)
            /\ Gap(a, b) = TwoMs
            /\ b.res.val # a.res.val

----------------------------------------------------------------------------
(* C10 *)

\* C10: on the same Instant and clock pair the serde and the rkyv serializer
\* return the same thing, W - (M - i) or W + (i - M) cast to u64, also where
\* serializing fails; on the same word and clock pair the two deserializers
\* return the same Instant.
C10_SameTransform ==
    \A k \in 1..Len(hist) :
        LET r == hist[k] IN
        /\ r.kind = "enc"
            => /\ SerdeSerialize(r.arg, r.W, r.M) = RkyvSerialize(r.arg, r.W, r.M)
               /\ ~OutOfRange(r)
                    => r.res = Ok(AsU64(IF r.arg <= r.M
                                        THEN r.W - (r.M - r.arg)
                                        ELSE r.W + (r.arg - r.M)))
        /\ r.kind = "dec"
            => SerdeDeserialize(r.arg, r.W, r.M) = RkyvDeserialize(r.arg, r.W, r.M)

----------------------------------------------------------------------------
(* C5 *)

\* C5: a buffer shorter than the 8 bytes of the archived Instant is rejected
\* with TruncatedBufferError before any of it is interpreted; every pattern
\* of 8 bytes passes validation and deserializes to an Instant.
C5_LengthCheckedFirst ==
    /\ fieldRead => Len(buf) = NBytes /\ bufpc = "done"
    /\ (bufpc # "given" /\ Len(buf) < NBytes)
        => bufpc = "rejected" /\ bufout = Err("TruncatedBufferError") /\ ~fieldRead
    /\ (bufpc # "given" /\ Len(buf) = NBytes)
        => /\ bufpc \in {"checked", "done"}
           /\ bufout.tag = "Ok"
           /\ bufpc = "done" => bufout = Ok(mono + (AsI64(to_native(buf)) - wall))

C5_Witness ==
    /\ bufpc = "done"
    /\ Len(buf) = NBytes
    /\ to_native(buf) = Modulus - 1
    /\ bufout.tag = "Ok"

----------------------------------------------------------------------------
(* C3 *)

\* C3: has_backtrace of a value answers with the flag as it was when the
\* value was built, not as it is when has_backtrace is called.
C3_AnswerIsFlagAtConstruction ==
    \A k \in 1..Len(hb) : hb[k].answer = hb[k].built

----------------------------------------------------------------------------
(* C4 *)

\* C4: a boxed value archived with rkyv and deserialized displays the same
\* text as the original, and is a text-only error: it has no source(), also
\* when the original had one.
C4_DisplaySurvivesSourceDoesNot ==
    \A k \in 1..Len(errOut) :
        /\ Display(errOut[k].inner) = Display(errOut[k].of)
        /\ Source(errOut[k].inner) = <<>>
        /\ errOut[k].of = from_string(<<"disk full">>)
            => Display(errOut[k].inner) = <<"disk full">>

C4_Witness ==
    \E k \in 1..Len(errOut) :
        /\ errOut[k].of = from_error(FlushFailed)
        /\ Source(errOut[k].of) # <<>>
        /\ Source(errOut[k].inner) = <<>>
        /\ errOut[k].inner # errOut[k].of

----------------------------------------------------------------------------
(* C8 *)

\* C8: each of the four members has its own ordinal in 0..3; in every format
\* a member that is encoded and decoded comes back as that member; an
\* ordinal outside 0..3 is refused with MalformedBufferError and gives no
\* member.
C8_TagRoundTrip ==
    /\ \A m \in Members : Ordinal(m) \in 0..3
    /\ \A m, n \in Members : Ordinal(m) = Ordinal(n) => m = n
    /\ \A k \in 1..Len(rpcGot) :
        LET f == rpcGot[k].frame
            r == rpcGot[k].res
        IN  /\ f.sent # "" => r = RpcOk(f.sent)
            /\ (f.fmt # "serde_name" /\ f.ord \notin 0..3)
                => r = RpcErr("MalformedBufferError")

C8_Witness ==
    /\ Len(rpcGot) = 2
    /\ rpcGot[1].frame = RpcSerialize("TransferLeader", "rkyv")
    /\ rpcGot[1].res = RpcOk("TransferLeader")
    /\ rpcGot[2].frame = Frame("rkyv", 4, "", "")
    /\ rpcGot[2].res.tag = "Err"

====
